---------------------------- MODULE Spec2Model ----------------------------
(***************************************************************************)
(* Model of find_inconsistencies.py: the per-subject inconsistency scorer  *)
(* (score_subject and its helpers), the positional pairing of the two csv  *)
(* files (find_inconsistencies) and the report (report_inconsistencies).   *)
(*                                                                         *)
(* Text is modelled as a sequence of one-character strings, so that the    *)
(* csv reader's splitting and int()'s parsing are computed, not assumed.   *)
(* Item indices are 0-based as in the source; sequences are 1-based.       *)
(***************************************************************************)
EXTENDS Integers, Sequences, FiniteSets, TLC

VARIABLES
    cat_csv,          \* lines of the categorical file (each a text)
    num_csv,          \* lines of the numerical file
    line_num,         \* cat_reader.line_num
    num_line_num,     \* num_reader.line_num
    pairs,            \* the list zip(cat_reader, num_reader) has built so far
    inconsistencies,  \* the tuple built at line 80 from the lazy starmap
    avg,              \* <<sum, len>>: the float sum / float(len), kept exact
    mode,             \* the value Counter(...).most_common(1)[0][0] returned
    stdout,           \* the lines printed so far
    out_csv,          \* the output file: [exists, rows]
    stderr,           \* how the run died, if it did: [type, file, line]
    pc,               \* position of the run
    cat_row,          \* argument of one score_subject call (a row of texts)
    num_row,          \* argument of one score_subject call (a row of texts)
    result            \* what that call returned or raised: [exc, value]

vars == <<cat_csv, num_csv, line_num, num_line_num, pairs, inconsistencies,
          avg, mode, stdout, out_csv, stderr, pc, cat_row, num_row, result>>

(***************************************************************************)
(* Bounds of the checked instances.                                        *)
(***************************************************************************)
MaxItems == 3

MaxVal == 1

MaxRows == 2

MaxSubjects == 4

MaxCount == 2

Vals == (0 - 1)..MaxVal

Min(a, b) == IF a < b THEN a ELSE b

Front(s) == SubSeq(s, 1, Len(s) - 1)

Last(s) == s[Len(s)]

(***************************************************************************)
(* Text: decimal literals, as int() reads them and as the input files hold *)
(* them.                                                                   *)
(***************************************************************************)
DigitChars == <<"0", "1", "2", "3", "4", "5", "6", "7", "8", "9">>

IsDigit(c) == \E d \in 1..10 : DigitChars[d] = c

DigitVal(c) == (CHOOSE d \in 1..10 : DigitChars[d] = c) - 1

RECURSIVE digits_value(_)
digits_value(s) ==
    IF s = <<>> THEN 0 ELSE 10 * digits_value(Front(s)) + DigitVal(Last(s))

\* int(text) succeeds: an optional minus sign, then at least one digit.
is_int_literal(s) ==
    LET body == IF s # <<>> /\ s[1] = "-" THEN Tail(s) ELSE s
    IN  body # <<>> /\ \A i \in 1..Len(body) : IsDigit(body[i])

\* int(text), for a text int() accepts.
int(s) == IF s[1] = "-" THEN 0 - digits_value(Tail(s)) ELSE digits_value(s)

\* map(int, row), for a row of texts int() accepts.
map_int(row) == [i \in 1..Len(row) |-> int(row[i])]

\* The decimal text of an integer (how an input file spells a value).
RECURSIVE ToText(_)
ToText(n) ==
    IF n < 0 THEN <<"-">> \o ToText(0 - n)
    ELSE IF n < 10 THEN <<DigitChars[n + 1]>>
    ELSE ToText(n \div 10) \o <<DigitChars[(n % 10) + 1]>>

TextRow(ints) == [i \in 1..Len(ints) |-> ToText(ints[i])]

(***************************************************************************)
(* The scorer.                                                             *)
(***************************************************************************)
\* Python 2's builtin cmp.
cmp(a, b) == IF a < b THEN 0 - 1 ELSE IF a > b THEN 1 ELSE 0

signum(x) == IF x > 0 THEN 1 ELSE IF x < 0 THEN 0 - 1 ELSE 0

max(a, b) == IF a > b THEN a ELSE b

\* izip / zip of two sequences: stops at the shorter one.
izip(a, b) == [i \in 1..Min(Len(a), Len(b)) |-> <<a[i], b[i]>>]

\* a, b = tee(iterable); next(b, None); izip(a, b)
pairwise(s) == izip(s, IF s = <<>> THEN <<>> ELSE Tail(s))

\* enumerate(values): (index, value) with 0-based indices.
enumerate(s) == [i \in 1..Len(s) |-> <<i - 1, s[i]>>]

num_cmp_ascending(x, y) == cmp(x[2], y[2])

\* The comparison function handed to sorted: lambda x, y: cmp(y[1], x[1]).
num_cmp(x, y) == cmp(y[2], x[2])

\* One step of the sort: x goes after every element that does not compare
\* greater than it (sorted is stable).
RECURSIVE insert(_, _)
insert(s, x) ==
    IF s = <<>> THEN <<x>>
    ELSE IF num_cmp(Last(s), x) <= 0 THEN Append(s, x)
    ELSE Append(insert(Front(s), x), Last(s))

RECURSIVE sorted_ties_reversed(_)
sorted_ties_reversed(s) ==
    IF s = <<>> THEN <<>>
    ELSE LET rest == sorted_ties_reversed(Tail(s))
             x == Head(s)
             k == Cardinality({i \in 1..Len(rest) : num_cmp(rest[i], x) <= 0})
         IN  SubSeq(rest, 1, k) \o <<x>> \o SubSeq(rest, k + 1, Len(rest))

\* sorted(enumerate(...), num_cmp)
RECURSIVE sorted(_)
sorted(s) == IF s = <<>> THEN <<>> ELSE insert(sorted(Front(s)), Last(s))

score_nomax(ranking_pair, cat_rankings) ==
    signum(cmp(cat_rankings[ranking_pair[1][1] + 1],
               cat_rankings[ranking_pair[2][1] + 1]))

score_ne(ranking_pair, cat_rankings) ==
    IF cat_rankings[ranking_pair[1][1] + 1] # cat_rankings[ranking_pair[2][1] + 1]
    THEN 1 ELSE 0

score_ge(ranking_pair, cat_rankings) ==
    IF cat_rankings[ranking_pair[1][1] + 1] >= cat_rankings[ranking_pair[2][1] + 1]
    THEN 1 ELSE 0

\* score(ranking_pair): 1 if the first item of the pair has the greater
\* categorical value, 0 otherwise.
score(ranking_pair, cat_rankings) ==
    LET r1 == ranking_pair[1]
        r2 == ranking_pair[2]
    IN  max(0, signum(cmp(cat_rankings[r1[1] + 1], cat_rankings[r2[1] + 1])))

\* reduce(lambda x, y: x + score(y), prs, 0)
RECURSIVE reduce(_, _)
reduce(prs, cat_rankings) ==
    IF prs = <<>> THEN 0
    ELSE reduce(Front(prs), cat_rankings) + score(Last(prs), cat_rankings)

Raise(e) == [exc |-> e, value |-> 0]

Return(v) == [exc |-> "none", value |-> v]

\* score_subject(cat_row, num_row) on two rows of texts: the count, or the
\* exception that escapes (int() on a text that is no integer; an index of
\* the numerical row that the categorical row does not have).
score_subject(c_row, n_row) ==
    IF \E i \in 1..Len(c_row) : ~is_int_literal(c_row[i]) THEN Raise("ValueError")
    ELSE IF \E i \in 1..Len(n_row) : ~is_int_literal(n_row[i]) THEN Raise("ValueError")
    ELSE LET cat_rankings == map_int(c_row)
             num_rankings == sorted(enumerate(map_int(n_row)))
             prs == pairwise(num_rankings)
         IN  IF \E k \in 1..Len(prs) :
                    \/ prs[k][1][1] >= Len(cat_rankings)
                    \/ prs[k][2][1] >= Len(cat_rankings)
             THEN Raise("IndexError")
             ELSE Return(reduce(prs, cat_rankings))

(***************************************************************************)
(* One call of score_subject on a subject with two rows of equal length.   *)
(***************************************************************************)
RowsOfLen(n) == [1..n -> Vals]

\* The subjects of the specification's worked examples.
ExampleSubjects ==
    { <<(<<1, 2, 3>>), (<<10, 20, 30>>)>>, <<(<<3, 2, 1>>), (<<10, 20, 30>>)>> }

NoResult == [exc |-> "pending", value |-> 0]

NoErr == [type |-> "none", file |-> "", line |-> 0]

NoFile == [exists |-> FALSE, rows |-> <<>>]

Idle ==
    /\ cat_csv = <<>>
    /\ num_csv = <<>>
    /\ line_num = 0
    /\ num_line_num = 0
    /\ pairs = <<>>
    /\ stdout = <<>>
    /\ out_csv = NoFile
    /\ stderr = NoErr

InitScore ==
    /\ Idle
    /\ inconsistencies = <<>>
    /\ avg = <<0, 0>>
    /\ mode = 0
    /\ pc = "call"
    /\ result = NoResult
    /\ \/ \E n \in 0..MaxItems : \E c \in RowsOfLen(n), m \in RowsOfLen(n) :
              /\ cat_row = TextRow(c)
              /\ num_row = TextRow(m)
       \/ \E s \in ExampleSubjects :
              /\ cat_row = TextRow(s[1])
              /\ num_row = TextRow(s[2])

ScoreSubject ==
    /\ pc = "call"
    /\ result' = score_subject(cat_row, num_row)
    /\ pc' = "returned"
    /\ UNCHANGED <<cat_csv, num_csv, line_num, num_line_num, pairs,
                   inconsistencies, avg, mode, stdout, out_csv, stderr,
                   cat_row, num_row>>

NextScore == ScoreSubject

SpecScore == InitScore /\ [][NextScore]_vars

(***************************************************************************)
(* Properties of one score_subject call.                                   *)
(***************************************************************************)
Returned == pc = "returned"

N == Len(cat_row)

Cat == map_int(cat_row)

Num == map_int(num_row)

Items == 1..N

Distinct(f) == \A i, j \in DOMAIN f : i # j => f[i] # f[j]

HasTies(f) == ~Distinct(f)

\* The position (0 = first) of item i when the items are listed by
\* descending numerical value, equal values in column order.
Rank(m, i) ==
    Cardinality({k \in DOMAIN m : m[k] > m[i] \/ (m[k] = m[i] /\ k < i)})

\* The pairs of items ordered inconsistently between the two rankings.
InconsistentPairs ==
    {p \in Items \X Items : Num[p[1]] > Num[p[2]] /\ Cat[p[1]] > Cat[p[2]]}

\* The pairs (i, j), j listed directly after i in the numerical ranking,
\* with the greater categorical value at i.
AdjacentInversions ==
    {p \in Items \X Items :
        Rank(Num, p[2]) = Rank(Num, p[1]) + 1 /\ Cat[p[1]] > Cat[p[2]]}

\* The numerical rows without ties that keep every strict order of m.
Refinements(m) ==
    {r \in [DOMAIN m -> 1..Len(m)] :
        /\ Distinct(r)
        /\ \A i, j \in DOMAIN m : m[i] > m[j] => r[i] > r[j]}

\* The refinement that ranks tied items in column order, earlier first.
ColumnOrderRefinement(m) == [i \in DOMAIN m |-> Len(m) - Rank(m, i)]

CountFor(m) == score_subject(cat_row, TextRow(m)).value

\* C1 as stated: the count of a subject with N items lies in 0..N-1, for
\* every N >= 0.
C1_CountWithinNMinus1 ==
    Returned => result.exc = "none" /\ 0 <= result.value /\ result.value <= N - 1

\* C1 (amended): the count of a subject with N items is an integer c with
\* 0 <= c <= max(N-1, 0); an empty row scores 0.
C1_CountInRange ==
    Returned =>
        /\ result.exc = "none"
        /\ result.value \in 0..max(N - 1, 0)

C1_Witness == Returned /\ N = 3 /\ result.value = 2 /\ HasTies(Num)

\* C2 as stated: the count is the number of unordered pairs of items that
\* the two rankings order inconsistently.
C2_CountsAllInconsistentPairs ==
    Returned => result.value = Cardinality(InconsistentPairs)

\* C2 (amended): the count is the number of pairs of items adjacent in the
\* numerical ranking (descending value, equal values in column order) whose
\* first item has the greater categorical value.
C2_CountsAdjacentInversions ==
    Returned => result.value = Cardinality(AdjacentInversions)

C2_Witness ==
    /\ Returned
    /\ N = 3
    /\ HasTies(Num)
    /\ result.value = 1
    /\ Cardinality(InconsistentPairs) = 2

\* C3: N >= 2 items, values pairwise distinct in both rows, the rankings
\* exactly reversed (num[i] > num[j] iff cat[i] > cat[j]): the count is N-1.
C3_ReversedScoresNMinus1 ==
    (/\ Returned
     /\ N >= 2
     /\ Distinct(Cat)
     /\ Distinct(Num)
     /\ \A i, j \in Items : i # j => (Num[i] > Num[j] <=> Cat[i] > Cat[j]))
    => result = Return(N - 1)

C3_Witness ==
    /\ Returned
    /\ Cat = <<1, 2, 3>>
    /\ Num = <<10, 20, 30>>
    /\ result = Return(2)

\* C4: values pairwise distinct in both rows and the rankings agree
\* (num[i] > num[j] iff cat[i] < cat[j]): the count is 0, wherever the
\* items stand in the row.
C4_AgreeingScoresZero ==
    (/\ Returned
     /\ Distinct(Cat)
     /\ Distinct(Num)
     /\ \A i, j \in Items : i # j => (Num[i] > Num[j] <=> Cat[i] < Cat[j]))
    => result = Return(0)

C4_Witness ==
    /\ Returned
    /\ Cat = <<3, 2, 1>>
    /\ Num = <<10, 20, 30>>
    /\ result = Return(0)

\* C5 as stated: with ties in the numerical row, the count is no greater
\* than the count for any tie-free numerical row that keeps every strict
\* order between the items.
C5_TiesNeverIncrease ==
    (Returned /\ HasTies(Num)) =>
        \A r \in Refinements(Num) : result.value <= CountFor(r)

\* C5 (amended): with ties in the numerical row, the count equals the count
\* for the tie-free row that ranks tied items in column order (so it is no
\* greater than the count for that replacement), and a consecutive pair of
\* the sorted order with equal numerical and equal categorical values
\* contributes 0.
C5_TiesCountAsColumnOrder ==
    (Returned /\ HasTies(Num)) =>
        /\ ColumnOrderRefinement(Num) \in Refinements(Num)
        /\ result.value = CountFor(ColumnOrderRefinement(Num))
        /\ LET prs == pairwise(sorted(enumerate(Num)))
           IN  \A k \in 1..Len(prs) :
                   (/\ prs[k][1][2] = prs[k][2][2]
                    /\ Cat[prs[k][1][1] + 1] = Cat[prs[k][2][1] + 1])
                   => score(prs[k], Cat) = 0

C5_Witness ==
    /\ Returned
    /\ N = 3
    /\ HasTies(Num)
    /\ HasTies(Cat)
    /\ result.value = 1
    /\ \E r \in Refinements(Num) : CountFor(r) = 0

(***************************************************************************)
(* The program: report_inconsistencies on two csv files.                   *)
(***************************************************************************)
\* Text of a csv line holding the given fields.
RECURSIVE join(_)
join(row) ==
    IF row = <<>> THEN <<>>
    ELSE IF Len(row) = 1 THEN row[1]
    ELSE row[1] \o <<",">> \o join(Tail(row))

CsvLine(ints) == join(TextRow(ints))

\* The fields of a line: the texts between its commas.
RECURSIVE split(_)
split(line) ==
    IF \A i \in 1..Len(line) : line[i] # ","
    THEN <<line>>
    ELSE LET k == CHOOSE i \in 1..Len(line) :
                      line[i] = "," /\ \A j \in 1..(i - 1) : line[j] # ","
         IN  <<SubSeq(line, 1, k - 1)>> \o split(SubSeq(line, k + 1, Len(line)))

\* One next() of a csv.reader on a line: csv.Error on a NUL byte, an empty
\* row for a blank line, the fields otherwise.
reader_next(line) ==
    IF \E i \in 1..Len(line) : line[i] = "NUL"
    THEN [err |-> TRUE, row |-> <<>>]
    ELSE IF line = <<>> THEN [err |-> FALSE, row |-> <<>>]
    ELSE [err |-> FALSE, row |-> split(line)]

\* The lines the checked input files are made of: rows of two items, a row
\* of one item, a blank line, a row with a field that is no integer, and a
\* line the csv reader rejects.
LinePool ==
    { CsvLine(<<1, 2>>), CsvLine(<<2, 1>>), CsvLine(<<3>>), <<>>,
      <<"1", ",", "x">>, <<"1", "NUL">> }

\* A subject of MaxCount+1 items whose count is c: the categorical row is
\* 1, 2, ..., and the numerical ranking lists the items c+1, c, ..., 1,
\* c+2, c+3, ...
SubjectWithCount(c) ==
    LET n == MaxCount + 1
    IN  [cat |-> [i \in 1..n |-> i],
         num |-> [i \in 1..n |-> IF i <= c + 1 THEN n - (c + 1 - i) ELSE n + 1 - i]]

FilesOf(S, maxlen) == UNION {[1..k -> S] : k \in 0..maxlen}

Init ==
    /\ line_num = 0
    /\ num_line_num = 0
    /\ pairs = <<>>
    /\ inconsistencies = <<>>
    /\ avg = <<0, 0>>
    /\ mode = 0
    /\ stdout = <<>>
    /\ out_csv = NoFile
    /\ stderr = NoErr
    /\ pc = "zip"
    /\ cat_row = <<>>
    /\ num_row = <<>>
    /\ result = NoResult
    /\ \/ /\ cat_csv \in FilesOf(LinePool, MaxRows)
          /\ num_csv \in FilesOf(LinePool, MaxRows)
       \/ \E counts \in FilesOf(0..MaxCount, MaxSubjects) :
              /\ cat_csv = [i \in 1..Len(counts) |-> CsvLine(SubjectWithCount(counts[i]).cat)]
              /\ num_csv = [i \in 1..Len(counts) |-> CsvLine(SubjectWithCount(counts[i]).num)]

SysExit(file, line) == [type |-> "SystemExit", file |-> file, line |-> line]

Uncaught(e) == [type |-> e, file |-> "", line |-> 0]

ZipStep_longest ==
    /\ pc = "zip"
    /\ UNCHANGED <<cat_csv, num_csv, inconsistencies, avg, mode, stdout,
                   out_csv, cat_row, num_row, result>>
    /\ IF line_num = Len(cat_csv)
       THEN /\ pc' = "tuple"
            /\ UNCHANGED <<line_num, num_line_num, pairs, stderr>>
       ELSE LET c == reader_next(cat_csv[line_num + 1])
            IN  /\ line_num' = line_num + 1
                /\ IF c.err
                   THEN /\ stderr' = SysExit("cat", line_num + 1)
                        /\ pc' = "exit"
                        /\ UNCHANGED <<num_line_num, pairs>>
                   ELSE IF num_line_num = Len(num_csv)
                   THEN /\ pairs' = Append(pairs, <<c.row, <<>>>>)
                        /\ UNCHANGED <<num_line_num, stderr, pc>>
                   ELSE LET m == reader_next(num_csv[num_line_num + 1])
                        IN  /\ num_line_num' = num_line_num + 1
                            /\ IF m.err
                               THEN /\ stderr' = SysExit("cat", line_num + 1)
                                    /\ pc' = "exit"
                                    /\ UNCHANGED pairs
                               ELSE /\ pairs' = Append(pairs, <<c.row, m.row>>)
                                    /\ UNCHANGED <<stderr, pc>>

\* One round of zip(cat_reader, num_reader), inside the try: the next row
\* of the categorical reader, then the next row of the numerical reader.
\* Either reader running out ends the zip; a csv.Error of either reader is
\* caught and exits with cat_csv_filename and cat_reader.line_num.
ZipStep ==
    /\ pc = "zip"
    /\ UNCHANGED <<cat_csv, num_csv, inconsistencies, avg, mode, stdout,
                   out_csv, cat_row, num_row, result>>
    /\ IF line_num = Len(cat_csv)
       THEN /\ pc' = "tuple"
            /\ UNCHANGED <<line_num, num_line_num, pairs, stderr>>
       ELSE LET c == reader_next(cat_csv[line_num + 1])
            IN  /\ line_num' = line_num + 1
                /\ IF c.err
                   THEN /\ stderr' = SysExit("cat", line_num + 1)
                        /\ pc' = "exit"
                        /\ UNCHANGED <<num_line_num, pairs>>
                   ELSE IF num_line_num = Len(num_csv)
                   THEN /\ pc' = "tuple"
                        /\ UNCHANGED <<num_line_num, pairs, stderr>>
                   ELSE LET m == reader_next(num_csv[num_line_num + 1])
                        IN  /\ num_line_num' = num_line_num + 1
                            /\ IF m.err
                               THEN /\ stderr' = SysExit("cat", line_num + 1)
                                    /\ pc' = "exit"
                                    /\ UNCHANGED pairs
                               ELSE /\ pairs' = Append(pairs, <<c.row, m.row>>)
                                    /\ UNCHANGED <<stderr, pc>>

TupleStep_partial ==
    /\ pc = "tuple"
    /\ UNCHANGED <<cat_csv, num_csv, line_num, num_line_num, pairs, avg, mode,
                   stdout, cat_row, num_row, result>>
    /\ IF Len(inconsistencies) = Len(pairs)
       THEN /\ pc' = "stats"
            /\ UNCHANGED <<inconsistencies, stderr, out_csv>>
       ELSE LET p == pairs[Len(inconsistencies) + 1]
                r == score_subject(p[1], p[2])
            IN  IF r.exc # "none"
                THEN /\ stderr' = Uncaught(r.exc)
                     /\ pc' = "raised"
                     /\ out_csv' = [exists |-> TRUE, rows |-> inconsistencies]
                     /\ UNCHANGED inconsistencies
                ELSE /\ inconsistencies' = Append(inconsistencies, r.value)
                     /\ UNCHANGED <<stderr, pc, out_csv>>

\* One next() of the starmap, driven by tuple(...) at line 80: the next
\* pair of rows is scored and its count collected; an exception of
\* score_subject escapes uncaught; after the last pair the tuple is built.
TupleStep ==
    /\ pc = "tuple"
    /\ UNCHANGED <<cat_csv, num_csv, line_num, num_line_num, pairs, avg, mode,
                   stdout, out_csv, cat_row, num_row, result>>
    /\ IF Len(inconsistencies) = Len(pairs)
       THEN /\ pc' = "stats"
            /\ UNCHANGED <<inconsistencies, stderr>>
       ELSE LET p == pairs[Len(inconsistencies) + 1]
                r == score_subject(p[1], p[2])
            IN  IF r.exc # "none"
                THEN /\ stderr' = Uncaught(r.exc)
                     /\ pc' = "raised"
                     /\ UNCHANGED inconsistencies
                ELSE /\ inconsistencies' = Append(inconsistencies, r.value)
                     /\ UNCHANGED <<stderr, pc>>

RECURSIVE sum(_)
sum(s) == IF s = <<>> THEN 0 ELSE sum(Front(s)) + Last(s)

\* Counter(s)[v]
Occurrences(s, v) == Cardinality({i \in 1..Len(s) : s[i] = v})

Values(s) == {s[i] : i \in 1..Len(s)}

\* The values with the highest number of occurrences.
MostFrequent(s) ==
    {v \in Values(s) : \A w \in Values(s) : Occurrences(s, w) <= Occurrences(s, v)}

\* The first most frequent value when the Counter's dict is iterated in
\* hash-slot order, as CPython 2 does: a small non-negative int hashes to
\* itself and lands in the slot of its own number (counts stay below the
\* smallest table size, 8), so the slots list the keys in ascending order.
first_max_by_slot(s) ==
    CHOOSE v \in MostFrequent(s) : \A w \in MostFrequent(s) : v <= w

\* The first most frequent value when the Counter's dict is iterated in
\* insertion order, as an interpreter with ordered dicts does.
first_max_by_insertion(s) ==
    s[CHOOSE i \in 1..Len(s) :
          /\ s[i] \in MostFrequent(s)
          /\ \A j \in 1..(i - 1) : s[j] \notin MostFrequent(s)]

most_common_any(s) == Values(s)

\* What Counter(s).most_common(1)[0][0] can return: max(iteritems, key =
\* count), the first value of the highest count in the dict's iteration
\* order, which is the interpreter's and not fixed by the code.
most_common(s) == {first_max_by_slot(s), first_max_by_insertion(s)}

int_format_round(q) == (2 * q[1] + q[2]) \div (2 * q[2])

\* '%d' % q for the quotient q = <<numerator, denominator>>: truncation
\* towards zero.
int_format(q) ==
    IF q[1] >= 0 THEN q[1] \div q[2] ELSE 0 - ((0 - q[1]) \div q[2])

Stats_zero_mean ==
    /\ pc = "stats"
    /\ UNCHANGED <<cat_csv, num_csv, line_num, num_line_num, pairs,
                   inconsistencies, stdout, out_csv, cat_row, num_row, result>>
    /\ IF inconsistencies = <<>>
       THEN /\ avg' = <<0, 1>>
            /\ mode' = 0
            /\ pc' = "print"
            /\ UNCHANGED stderr
       ELSE /\ avg' = <<sum(inconsistencies), Len(inconsistencies)>>
            /\ mode' \in most_common(inconsistencies)
            /\ pc' = "print"
            /\ UNCHANGED stderr

\* Lines 82-83: the mean (a division by float(len), which raises
\* ZeroDivisionError for no subjects) and the mode.
Stats ==
    /\ pc = "stats"
    /\ UNCHANGED <<cat_csv, num_csv, line_num, num_line_num, pairs,
                   inconsistencies, stdout, out_csv, cat_row, num_row, result>>
    /\ IF inconsistencies = <<>>
       THEN /\ stderr' = Uncaught("ZeroDivisionError")
            /\ pc' = "raised"
            /\ UNCHANGED <<avg, mode>>
       ELSE /\ avg' = <<sum(inconsistencies), Len(inconsistencies)>>
            /\ mode' \in most_common(inconsistencies)
            /\ pc' = "print"
            /\ UNCHANGED stderr

\* Lines 85-86: the two summary lines.
PrintSummary ==
    /\ pc = "print"
    /\ stdout' = <<[text |-> "Average # of inconsistencies", value |-> int_format(avg)],
                   [text |-> "Most common # of inconsistencies", value |-> mode]>>
    /\ pc' = "write"
    /\ UNCHANGED <<cat_csv, num_csv, line_num, num_line_num, pairs,
                   inconsistencies, avg, mode, out_csv, stderr, cat_row,
                   num_row, result>>

\* Lines 88-90: the output file, one row per count.
WriteOutput ==
    /\ pc = "write"
    /\ out_csv' = [exists |-> TRUE,
                   rows |-> [i \in 1..Len(inconsistencies) |-> <<inconsistencies[i]>>]]
    /\ pc' = "done"
    /\ UNCHANGED <<cat_csv, num_csv, line_num, num_line_num, pairs,
                   inconsistencies, avg, mode, stdout, stderr, cat_row,
                   num_row, result>>

Next == ZipStep \/ TupleStep \/ Stats \/ PrintSummary \/ WriteOutput

Spec == Init /\ [][Next]_vars

(***************************************************************************)
(* Properties of a run of report_inconsistencies.                          *)
(***************************************************************************)
Terminated == pc \in {"done", "exit", "raised"}

ZipDone == pc \in {"tuple", "stats", "print", "write", "done", "raised"}

TupleDone == pc \in {"stats", "print", "write", "done"}

Row(line) == reader_next(line).row

\* A line with a parse error: the csv reader rejects it, or one of its
\* fields is no integer.
BadLine(line) ==
    \/ reader_next(line).err
    \/ \E i \in 1..Len(Row(line)) : ~is_int_literal(Row(line)[i])

FileNamed(f) == IF f = "cat" THEN cat_csv ELSE num_csv

\* C6: the two row sequences are paired positionally and cut to the
\* shorter one: the zip holds exactly min(len(C), len(M)) pairs, the i-th
\* made of row i of each file; every count collected is score_subject of
\* row i of both files, in subject order; and the finished tuple has
\* min(len(C), len(M)) counts.
C6_PositionalPairing ==
    /\ ZipDone =>
          /\ Len(pairs) = Min(Len(cat_csv), Len(num_csv))
          /\ \A i \in 1..Len(pairs) :
                 pairs[i] = <<Row(cat_csv[i]), Row(num_csv[i])>>
    /\ Len(inconsistencies) <= Min(Len(cat_csv), Len(num_csv))
    /\ \A i \in 1..Len(inconsistencies) :
           Return(inconsistencies[i]) = score_subject(Row(cat_csv[i]), Row(num_csv[i]))
    /\ TupleDone => Len(inconsistencies) = Min(Len(cat_csv), Len(num_csv))

C6_Witness ==
    /\ pc = "done"
    /\ Len(cat_csv) = 2
    /\ Len(num_csv) = 1
    /\ inconsistencies = <<1>>
    /\ score_subject(Row(cat_csv[2]), Row(num_csv[1])) = Return(0)

\* C7 as stated: a run ended by a parse error (a field that is no integer,
\* a malformed csv row) leaves a message naming the file that holds an
\* offending row and that row's line number.
C7_ParseErrorNamesFileAndLine ==
    (Terminated /\ stderr.type \in {"SystemExit", "ValueError"}) =>
        \E f \in {"cat", "num"} :
            /\ stderr.file = f
            /\ stderr.line \in 1..Len(FileNamed(f))
            /\ BadLine(FileNamed(f)[stderr.line])

\* C8: no partial success. A run that died (reading a row, scoring a
\* subject, or taking the mean) has printed no summary line and has no
\* output file; the output file exists only after both summary lines were
\* printed and every paired subject was scored without error, and a summary
\* line is printed only after every subject was scored.
C8_NoPartialSuccess ==
    /\ (pc \in {"exit", "raised"}) => (stdout = <<>> /\ ~out_csv.exists)
    /\ stderr.type # "none" => (stdout = <<>> /\ ~out_csv.exists)
    /\ stdout # <<>> =>
          /\ Len(inconsistencies) = Len(pairs)
          /\ \A i \in 1..Len(pairs) : score_subject(pairs[i][1], pairs[i][2]).exc = "none"
          /\ \A i \in 1..line_num : ~reader_next(cat_csv[i]).err
          /\ \A i \in 1..num_line_num : ~reader_next(num_csv[i]).err
    /\ out_csv.exists =>
          /\ Len(stdout) = 2
          /\ Len(out_csv.rows) = Len(pairs)

C8_Witness ==
    /\ pc = "raised"
    /\ stderr.type = "ValueError"
    /\ Len(inconsistencies) = 1
    /\ Len(pairs) = 2
    /\ stdout = <<>>
    /\ ~out_csv.exists

\* The most frequent value whose first occurrence is earliest.
FirstMostCommon(s) ==
    s[CHOOSE i \in 1..Len(s) :
          /\ \A w \in Values(s) : Occurrences(s, w) <= Occurrences(s, s[i])
          /\ \A j \in 1..(i - 1) : Occurrences(s, s[j]) < Occurrences(s, s[i])]

\* C9 as stated: the printed mean is floor(sum / subjects) and the printed
\* mode is the most frequent count, ties going to the value that occurs
\* first in subject order.
C9_ModeFirstOccurrence ==
    Len(stdout) = 2 =>
        /\ stdout[1].value * Len(inconsistencies) <= sum(inconsistencies)
        /\ sum(inconsistencies) < (stdout[1].value + 1) * Len(inconsistencies)
        /\ stdout[2].value = FirstMostCommon(inconsistencies)

\* C9 (amended): the printed mean is floor(sum / subjects) and the printed
\* mode is a count with the highest number of occurrences (which one of
\* several equally frequent counts is not fixed).
C9_MeanAndMode ==
    Len(stdout) = 2 =>
        /\ stdout[1].value * Len(inconsistencies) <= sum(inconsistencies)
        /\ sum(inconsistencies) < (stdout[1].value + 1) * Len(inconsistencies)
        /\ \A i \in 1..Len(inconsistencies) :
               Occurrences(inconsistencies, inconsistencies[i])
                   <= Occurrences(inconsistencies, stdout[2].value)
        /\ Occurrences(inconsistencies, stdout[2].value) > 0

C9_Witness ==
    /\ inconsistencies = <<0, 2, 2, 1>>
    /\ Len(stdout) = 2
    /\ stdout[1].value = 1
    /\ stdout[2].value = 2

\* C10 as stated: with no row in either file, or none in one of them, the
\* run dies of ZeroDivisionError, with no summary line and no output file.
C10_NoRowsDivisionByZero ==
    /\ (Terminated /\ (cat_csv = <<>> \/ num_csv = <<>>)) =>
          /\ stderr = Uncaught("ZeroDivisionError")
          /\ pc = "raised"
          /\ stdout = <<>>
          /\ ~out_csv.exists
    /\ out_csv.exists => out_csv.rows # <<>>

\* C10 (amended): when the pairing yields no subject (the categorical file
\* has no row, or the numerical file has none and the csv reader accepts
\* the first categorical line), the run dies of ZeroDivisionError, with no
\* summary line and no output file; an empty output file is never written.
C10_NoSubjectsDivisionByZero ==
    /\ (/\ Terminated
        /\ \/ cat_csv = <<>>
           \/ (num_csv = <<>> /\ ~reader_next(cat_csv[1]).err)) =>
          /\ stderr = Uncaught("ZeroDivisionError")
          /\ pc = "raised"
          /\ stdout = <<>>
          /\ ~out_csv.exists
    /\ out_csv.exists => out_csv.rows # <<>>

C10_Witness ==
    /\ pc = "raised"
    /\ stderr = Uncaught("ZeroDivisionError")
    /\ Len(cat_csv) = 2
    /\ num_csv = <<>>
    /\ line_num = 1
    /\ stdout = <<>>
    /\ ~out_csv.exists

=============================================================================
